---- MODULE Spec2Model ----
(***************************************************************************)
(* The Reversi engine of reversi/src/main.rs: the 8x8 board, the          *)
(* bracketing scan (is_valid_move / check), and the game loop of main     *)
(* with its turn counter, pass counter and double-pass termination.       *)
(***************************************************************************)
EXTENDS Integers, Sequences, FiniteSets, TLC

\* ------------------------------------------------------------------------
\* Constants of the program
\* ------------------------------------------------------------------------

\* const N: usize = 8
N == 8

Idx == 0 .. (N - 1)

Colours == {"B", "W"}

Chars == {".", "B", "W"}

\* The eight directions, in the order is_valid_move tries them.
dirs ==
  << <<-1, 0>>, <<1, 0>>, <<0, -1>>, <<0, 1>>,
     <<-1, -1>>, <<-1, 1>>, <<1, -1>>, <<1, 1>> >>

\* ------------------------------------------------------------------------
\* Bounds of the model
\* ------------------------------------------------------------------------

\* How many cells of InputCells the players may type.
NumCells == 13

\* The cells the players may type: the cells of the shortest games that
\* contain a pass followed by a move and a double pass, then their
\* neighbours.
InputCells ==
  << <<2, 3>>, <<2, 2>>, <<2, 1>>, <<1, 1>>, <<4, 5>>, <<2, 0>>, <<0, 0>>,
     <<0, 2>>, <<2, 4>>, <<2, 5>>, <<3, 5>>, <<5, 4>>, <<2, 6>>, <<2, 7>>,
     <<4, 6>>, <<1, 4>>, <<1, 3>>, <<5, 3>> >>

\* How many cells of a line from the corner (0, 0) hold arbitrary contents on
\* the boards that is_valid_move is probed on outside a game.
StripLen == 6

\* ------------------------------------------------------------------------
\* The board and the scan
\* ------------------------------------------------------------------------

\* init_board with one of the White centre stones written in lower case.
init_board_lower_case ==
  [i \in Idx |-> [j \in Idx |->
     IF <<i, j>> = <<3, 3>> THEN "w"
     ELSE IF <<i, j>> = <<4, 4>> THEN "W"
     ELSE IF <<i, j>> \in {<<3, 4>>, <<4, 3>>} THEN "B"
     ELSE "."]]

\* init_board with the colours of the four centre stones exchanged.
init_board_swapped ==
  [i \in Idx |-> [j \in Idx |->
     IF <<i, j>> \in {<<3, 3>>, <<4, 4>>} THEN "B"
     ELSE IF <<i, j>> \in {<<3, 4>>, <<4, 3>>} THEN "W"
     ELSE "."]]

init_board ==
  [i \in Idx |-> [j \in Idx |->
     IF <<i, j>> \in {<<3, 3>>, <<4, 4>>} THEN "W"
     ELSE IF <<i, j>> \in {<<3, 4>>, <<4, 3>>} THEN "B"
     ELSE "."]]

\* is_inside_board with `<=` for `<` on the row.
is_inside_board_off_by_one(i, j) == i >= 0 /\ i <= N /\ j >= 0 /\ j < N

is_inside_board(i, j) == i >= 0 /\ i < N /\ j >= 0 /\ j < N

\* check that, when it only probes (update = false), answers true as soon
\* as it stands on an opponent stone.
RECURSIVE check_probe_one_step(_, _, _, _, _, _, _)
check_probe_one_step(ni, nj, board, color, oppo_color, update, dir) ==
  IF ~is_inside_board(ni, nj)
  THEN [found |-> FALSE, board |-> board]
  ELSE IF board[ni][nj] = color
  THEN [found |-> TRUE, board |-> board]
  ELSE IF board[ni][nj] = oppo_color
  THEN IF ~update
       THEN [found |-> TRUE, board |-> board]
       ELSE LET r == check_probe_one_step(ni + dir[1], nj + dir[2], board,
                                          color, oppo_color, update, dir)
            IN  IF r.found
                THEN [found |-> TRUE,
                      board |-> [r.board EXCEPT ![ni][nj] = color]]
                ELSE [found |-> FALSE, board |-> r.board]
  ELSE [found |-> FALSE, board |-> board]

\* check that answers without recolouring the stones it walked over.
RECURSIVE check_never_flips(_, _, _, _, _, _, _)
check_never_flips(ni, nj, board, color, oppo_color, update, dir) ==
  IF ~is_inside_board(ni, nj)
  THEN [found |-> FALSE, board |-> board]
  ELSE IF board[ni][nj] = color
  THEN [found |-> TRUE, board |-> board]
  ELSE IF board[ni][nj] = oppo_color
  THEN LET r == check_never_flips(ni + dir[1], nj + dir[2], board, color,
                                  oppo_color, update, dir)
       IN  [found |-> r.found, board |-> r.board]
  ELSE [found |-> FALSE, board |-> board]

\* check with the captured stone taken off the board instead of recoloured.
RECURSIVE check_removes_captured(_, _, _, _, _, _, _)
check_removes_captured(ni, nj, board, color, oppo_color, update, dir) ==
  IF ~is_inside_board(ni, nj)
  THEN [found |-> FALSE, board |-> board]
  ELSE IF board[ni][nj] = color
  THEN [found |-> TRUE, board |-> board]
  ELSE IF board[ni][nj] = oppo_color
  THEN LET r == check_removes_captured(ni + dir[1], nj + dir[2], board, color,
                                       oppo_color, update, dir)
       IN  IF r.found
           THEN [found |-> TRUE,
                 board |-> IF update
                           THEN [r.board EXCEPT ![ni][nj] = "."]
                           ELSE r.board]
           ELSE [found |-> FALSE, board |-> r.board]
  ELSE [found |-> FALSE, board |-> board]

\* check with the write done before the rest of the run is known to be
\* bracketed.
RECURSIVE check_flips_early(_, _, _, _, _, _, _)
check_flips_early(ni, nj, board, color, oppo_color, update, dir) ==
  IF ~is_inside_board(ni, nj)
  THEN [found |-> FALSE, board |-> board]
  ELSE IF board[ni][nj] = color
  THEN [found |-> TRUE, board |-> board]
  ELSE IF board[ni][nj] = oppo_color
  THEN LET r == check_flips_early(ni + dir[1], nj + dir[2],
                                  IF update
                                  THEN [board EXCEPT ![ni][nj] = color]
                                  ELSE board,
                                  color, oppo_color, update, dir)
       IN  [found |-> r.found, board |-> r.board]
  ELSE [found |-> FALSE, board |-> board]

\* check walks from (ni, nj) along dir.  The result carries the verdict and
\* the board as the call leaves it (the code mutates it in place).
RECURSIVE check(_, _, _, _, _, _, _)
check(ni, nj, board, color, oppo_color, update, dir) ==
  IF ~is_inside_board(ni, nj)
  THEN [found |-> FALSE, board |-> board]
  ELSE IF board[ni][nj] = color
  THEN [found |-> TRUE, board |-> board]
  ELSE IF board[ni][nj] = oppo_color
  THEN LET r == check(ni + dir[1], nj + dir[2], board, color, oppo_color,
                      update, dir)
       IN  IF r.found
           THEN [found |-> TRUE,
                 board |-> IF update
                           THEN [r.board EXCEPT ![ni][nj] = color]
                           ELSE r.board]
           ELSE [found |-> FALSE, board |-> r.board]
  ELSE [found |-> FALSE, board |-> board]

\* try_dir with the target written as soon as a neighbour is an opponent.
try_dir_places_first(bi, bj, st, color, oppo_color, update, dir) ==
  LET ni == bi + dir[1]
      nj == bj + dir[2]
  IN  IF is_inside_board(ni, nj) /\ st.board[ni][nj] = oppo_color
      THEN LET placed_first == IF update
                               THEN [st.board EXCEPT ![bi][bj] = color]
                               ELSE st.board
               r == check(ni, nj, placed_first, color, oppo_color, update, dir)
           IN  [found |-> st.found \/ r.found, board |-> r.board]
      ELSE st

\* try_dir that starts a scan on any occupied neighbour.
try_dir_any_neighbour(bi, bj, st, color, oppo_color, update, dir) ==
  LET ni == bi + dir[1]
      nj == bj + dir[2]
  IN  IF is_inside_board(ni, nj) /\ st.board[ni][nj] # "."
      THEN LET r == check(ni, nj, st.board, color, oppo_color, update, dir)
           IN  IF r.found
               THEN [found |-> TRUE,
                     board |-> IF update
                               THEN [r.board EXCEPT ![bi][bj] = color]
                               ELSE r.board]
               ELSE [found |-> st.found, board |-> r.board]
      ELSE st

\* try_dir that never writes the target cell.
try_dir_no_stone(bi, bj, st, color, oppo_color, update, dir) ==
  LET ni == bi + dir[1]
      nj == bj + dir[2]
  IN  IF is_inside_board(ni, nj) /\ st.board[ni][nj] = oppo_color
      THEN LET r == check(ni, nj, st.board, color, oppo_color, update, dir)
           IN  [found |-> st.found \/ r.found, board |-> r.board]
      ELSE st

\* One iteration of the `for dir in dirs` loop of is_valid_move, applied to
\* the loop state st = [found, board].
try_dir(bi, bj, st, color, oppo_color, update, dir) ==
  LET ni == bi + dir[1]
      nj == bj + dir[2]
  IN  IF is_inside_board(ni, nj) /\ st.board[ni][nj] = oppo_color
      THEN LET r == check(ni, nj, st.board, color, oppo_color, update, dir)
           IN  IF r.found
               THEN [found |-> TRUE,
                     board |-> IF update
                               THEN [r.board EXCEPT ![bi][bj] = color]
                               ELSE r.board]
               ELSE [found |-> st.found, board |-> r.board]
      ELSE st

RECURSIVE scan_dirs(_, _, _, _, _, _, _)
scan_dirs(k, bi, bj, st, color, oppo_color, update) ==
  IF k > Len(dirs)
  THEN st
  ELSE scan_dirs(k + 1, bi, bj,
                 try_dir(bi, bj, st, color, oppo_color, update, dirs[k]),
                 color, oppo_color, update)

is_valid_move(bi, bj, board, color, oppo_color, update) ==
  scan_dirs(1, bi, bj, [found |-> FALSE, board |-> board],
            color, oppo_color, update)

\* ------------------------------------------------------------------------
\* The cells the scan indexes
\* ------------------------------------------------------------------------

\* board[i as usize][j as usize]: "!" stands for the panic of an index
\* outside the array.
cell_at(board, i, j) ==
  IF i \in Idx /\ j \in Idx THEN board[i][j] ELSE "!"

\* The coordinates at which check indexes the board, one per call that gets
\* past is_inside_board, in the order of the calls.
RECURSIVE check_path(_, _, _, _, _, _)
check_path(ni, nj, board, color, oppo_color, dir) ==
  IF ~is_inside_board(ni, nj)
  THEN << >>
  ELSE IF cell_at(board, ni, nj) = oppo_color
  THEN << <<ni, nj>> >>
         \o check_path(ni + dir[1], nj + dir[2], board, color, oppo_color,
                       dir)
  ELSE << <<ni, nj>> >>

\* The coordinates at which is_valid_move and the calls of check it makes
\* index the board for one direction, before any write.
dir_path(bi, bj, board, color, oppo_color, dir) ==
  LET ni == bi + dir[1]
      nj == bj + dir[2]
  IN  IF is_inside_board(ni, nj)
      THEN << <<ni, nj>> >>
             \o (IF cell_at(board, ni, nj) = oppo_color
                 THEN check_path(ni, nj, board, color, oppo_color, dir)
                 ELSE << >>)
      ELSE << >>

\* analyze_board: the stone counts and, over the Empty cells, whether color
\* and whether oppo have a move (each probe runs on a clone of the board).
analyze_board(board, color, oppo) ==
  [black |-> Cardinality({c \in Idx \X Idx : board[c[1]][c[2]] = "B"}),
   white |-> Cardinality({c \in Idx \X Idx : board[c[1]][c[2]] = "W"}),
   valid_cur |->
     \E i \in Idx, j \in Idx :
        /\ board[i][j] = "."
        /\ is_valid_move(i, j, board, color, oppo, FALSE).found,
   valid_oppo |->
     \E i \in Idx, j \in Idx :
        /\ board[i][j] = "."
        /\ is_valid_move(i, j, board, oppo, color, FALSE).found]

\* print_winner with the margin always taken as black - white.
print_winner_signed(black, white) ==
  IF black > white
  THEN [winner |-> "Black", points |-> black - white]
  ELSE IF white > black
  THEN [winner |-> "White", points |-> black - white]
  ELSE [winner |-> "Draw", points |-> 0]

\* print_winner: what is printed, as [winner, points].
print_winner(black, white) ==
  IF black > white
  THEN [winner |-> "Black", points |-> black - white]
  ELSE IF white > black
  THEN [winner |-> "White", points |-> white - black]
  ELSE [winner |-> "Draw", points |-> 0]

\* ------------------------------------------------------------------------
\* Input lines: sequences of Unicode scalar values
\* ------------------------------------------------------------------------

\* The scalar values with the Unicode White_Space property, which str::trim
\* removes.
White_Space ==
  (9 .. 13) \cup {32, 133, 160, 5760} \cup (8192 .. 8202)
    \cup {8232, 8233, 8239, 8287, 12288}

RECURSIVE trim_start(_)
trim_start(s) ==
  IF s # <<>> /\ Head(s) \in White_Space THEN trim_start(Tail(s)) ELSE s

RECURSIVE trim_end(_)
trim_end(s) ==
  IF s # <<>> /\ s[Len(s)] \in White_Space
  THEN trim_end(SubSeq(s, 1, Len(s) - 1))
  ELSE s

\* str::trim
trim(s) == trim_end(trim_start(s))

\* (ch as u8).wrapping_sub(b'a')
letter_index(ch) == ((ch % 256) - 97) % 256

None == [some |-> FALSE, r |-> 0, c |-> 0]

parse_move(s) ==
  IF Len(s) # 2
  THEN None
  ELSE LET r == letter_index(s[1])
           c == letter_index(s[2])
       IN  IF r < 8 /\ c < 8
           THEN [some |-> TRUE, r |-> r, c |-> c]
           ELSE None

\* The line a player types for a cell: two letters and the newline.
LineOf(cell) == <<97 + cell[1], 97 + cell[2], 10>>

\* Lines that name no playable cell: empty, one letter, an occupied centre
\* cell, a row past 'h', a character below 'a', three letters, a line with
\* blanks around an occupied cell, and one with U+3000 and U+2028 around an
\* occupied cell.
OtherLines ==
  { <<10>>, <<97, 10>>, <<100, 100, 10>>, <<105, 97, 10>>, <<96, 97, 10>>,
    <<97, 97, 97, 10>>, <<32, 100, 101, 32, 13, 10>>, <<104, 104, 10>>,
    <<12288, 101, 100, 8232, 10>> }

Lines == {LineOf(InputCells[k]) : k \in 1 .. NumCells} \cup OtherLines

\* ------------------------------------------------------------------------
\* The game loop of main
\* ------------------------------------------------------------------------

VARIABLES
  board,       \* the 8x8 grid
  turn,        \* turn counter; its parity names the player to move
  pass_count,  \* consecutive passes
  pc,          \* "analyze": top of the loop; "input": blocked in read_line;
               \* "done": after break
  outcome,     \* what print_winner printed, or no_outcome
  placed,      \* history: accepted moves so far
  passes,      \* history: passes that did not end the game
  last,        \* history: what the last step was
  prev_board,  \* history: the board before the last accepted move
  last_move    \* history: the last accepted move, [r, c, color]

vars ==
  <<board, turn, pass_count, pc, outcome, placed, passes, last, prev_board,
    last_move>>

no_outcome == [winner |-> "none", points |-> 0]

no_move == [r |-> -1, c |-> -1, color |-> "."]

cur_of(t) == IF t % 2 = 0 THEN "B" ELSE "W"

oppo_of(c) == IF c = "B" THEN "W" ELSE "B"

cur == cur_of(turn)

oppo == oppo_of(cur)

\* ------------------------------------------------------------------------
\* The song library of server/src/main.rs
\* ------------------------------------------------------------------------

\* How many requests the server receives.
MaxReq == 3

Requests == 1 .. MaxReq

VARIABLES
  songs,  \* AppState.songs: the Vec<Song>, each song as [id, play_count]
  disk,   \* the library that songs.json holds; << >> while there is no
          \* file or the file holds no library (empty, torn, not JSON, [])
  lock,   \* the request holding the write lock of AppState.songs, or 0
  req,    \* per request: the handler, its position, and its locals
  loaded  \* history: the library main loaded when the server started

server == <<songs, disk, lock, req, loaded>>

no_request == [kind |-> "none", pc |-> "idle", id |-> 0, new_id |-> 0]

\* The libraries songs.json may hold when the server starts: none, the
\* library an earlier run wrote, a file with ids out of order, and a file
\* with ids out of order and twice.
StartFiles ==
  { << >>,
    << [id |-> 1, play_count |-> 3] >>,
    << [id |-> 2, play_count |-> 0], [id |-> 1, play_count |-> 0] >>,
    << [id |-> 2, play_count |-> 7], [id |-> 1, play_count |-> 0],
       [id |-> 2, play_count |-> 0] >> }

\* main up to axum::serve, lines 171-189: the library is the one songs.json
\* holds, or empty; nobody holds the lock, no request has come in.
server_start ==
  /\ disk \in StartFiles
  /\ songs = disk
  /\ loaded = disk
  /\ lock = 0
  /\ req = [r \in Requests |-> no_request]

\* The server is not running.
no_server ==
  /\ songs = << >>
  /\ disk = << >>
  /\ loaded = << >>
  /\ lock = 0
  /\ req = [r \in Requests |-> no_request]

Init ==
  /\ board = init_board
  /\ turn = 0
  /\ pass_count = 0
  /\ pc = "analyze"
  /\ outcome = no_outcome
  /\ placed = 0
  /\ passes = 0
  /\ last = "start"
  /\ prev_board = init_board
  /\ last_move = no_move
  /\ no_server

\* PassTurn without `pass_count += 1`.
PassTurn_keeps_count ==
  /\ pc = "analyze"
  /\ ~analyze_board(board, cur, oppo).valid_cur
  /\ pass_count + 1 # 2
  /\ turn' = turn + 1
  /\ passes' = passes + 1
  /\ last' = "pass"
  /\ UNCHANGED <<board, pc, pass_count, outcome, placed, prev_board, last_move>>
  /\ UNCHANGED server

\* PassTurn without `turn += 1`.
PassTurn_same_player ==
  /\ pc = "analyze"
  /\ ~analyze_board(board, cur, oppo).valid_cur
  /\ pass_count + 1 # 2
  /\ pass_count' = pass_count + 1
  /\ passes' = passes + 1
  /\ last' = "pass"
  /\ UNCHANGED <<board, turn, pc, outcome, placed, prev_board, last_move>>
  /\ UNCHANGED server

\* Lines 13-24, !valid_cur and pass_count becomes 1: the turn passes.
PassTurn ==
  /\ pc = "analyze"
  /\ ~analyze_board(board, cur, oppo).valid_cur
  /\ pass_count + 1 # 2
  /\ pass_count' = pass_count + 1
  /\ turn' = turn + 1
  /\ passes' = passes + 1
  /\ last' = "pass"
  /\ UNCHANGED <<board, pc, outcome, placed, prev_board, last_move>>
  /\ UNCHANGED server

\* GameOver without the test `pass_count == 2`: the game ends on any pass.
GameOver_first_pass ==
  /\ pc = "analyze"
  /\ LET a == analyze_board(board, cur, oppo)
     IN  /\ ~a.valid_cur
         /\ outcome' = print_winner(a.black, a.white)
  /\ pass_count' = pass_count + 1
  /\ pc' = "done"
  /\ last' = "over"
  /\ UNCHANGED <<board, turn, placed, passes, prev_board, last_move>>
  /\ UNCHANGED server

\* GameOver without `break`.
GameOver_no_break ==
  /\ pc = "analyze"
  /\ LET a == analyze_board(board, cur, oppo)
     IN  /\ ~a.valid_cur
         /\ pass_count + 1 = 2
         /\ outcome' = print_winner(a.black, a.white)
  /\ pass_count' = pass_count + 1
  /\ last' = "over"
  /\ UNCHANGED <<board, turn, pc, placed, passes, prev_board, last_move>>
  /\ UNCHANGED server

\* Lines 13-21, !valid_cur and pass_count becomes 2: print the winner, break.
GameOver ==
  /\ pc = "analyze"
  /\ LET a == analyze_board(board, cur, oppo)
     IN  /\ ~a.valid_cur
         /\ pass_count + 1 = 2
         /\ outcome' = print_winner(a.black, a.white)
  /\ pass_count' = pass_count + 1
  /\ pc' = "done"
  /\ last' = "over"
  /\ UNCHANGED <<board, turn, placed, passes, prev_board, last_move>>
  /\ UNCHANGED server

\* RequestMove without `pass_count = 0`.
RequestMove_no_reset ==
  /\ pc = "analyze"
  /\ analyze_board(board, cur, oppo).valid_cur
  /\ pc' = "input"
  /\ last' = "request"
  /\ UNCHANGED <<board, turn, pass_count, outcome, placed, passes,
                 prev_board, last_move>>
  /\ UNCHANGED server

\* Lines 13-34, valid_cur: reset the pass counter, prompt, block in read_line.
RequestMove ==
  /\ pc = "analyze"
  /\ analyze_board(board, cur, oppo).valid_cur
  /\ pass_count' = 0
  /\ pc' = "input"
  /\ last' = "request"
  /\ UNCHANGED <<board, turn, outcome, placed, passes, prev_board, last_move>>
  /\ UNCHANGED server

\* Lines 34-36: read_line failed; continue.
ReadError ==
  /\ pc = "input"
  /\ pc' = "analyze"
  /\ last' = "read_error"
  /\ UNCHANGED <<board, turn, pass_count, outcome, placed, passes, prev_board,
                 last_move>>
  /\ UNCHANGED server

\* handle_line without the test that the target cell is empty.
handle_line_no_empty_test(line, b, t) ==
  LET m == parse_move(trim(line))
  IN  IF m.some
      THEN LET r == is_valid_move(m.r, m.c, b, cur_of(t),
                                  oppo_of(cur_of(t)), TRUE)
           IN  IF r.found
               THEN [branch |-> "accept", move |-> m,
                     board |-> r.board, turn |-> t + 1]
               ELSE [branch |-> "no_capture", move |-> m,
                     board |-> r.board, turn |-> t]
      ELSE [branch |-> "unparsed", move |-> m, board |-> b, turn |-> t]

\* handle_line without `turn += 1` on an accepted move.
handle_line_same_turn(line, b, t) ==
  LET m == parse_move(trim(line))
  IN  IF m.some
      THEN IF b[m.r][m.c] = "."
           THEN LET r == is_valid_move(m.r, m.c, b, cur_of(t),
                                       oppo_of(cur_of(t)), TRUE)
                IN  IF r.found
                    THEN [branch |-> "accept", move |-> m,
                          board |-> r.board, turn |-> t]
                    ELSE [branch |-> "no_capture", move |-> m,
                          board |-> r.board, turn |-> t]
           ELSE [branch |-> "occupied", move |-> m, board |-> b, turn |-> t]
      ELSE [branch |-> "unparsed", move |-> m, board |-> b, turn |-> t]

\* Lines 38-51 for one line of input: which branch is taken, the parsed
\* move, and the board and turn counter the branch leaves.
handle_line(line, b, t) ==
  LET m == parse_move(trim(line))
  IN  IF m.some
      THEN IF b[m.r][m.c] = "."
           THEN LET r == is_valid_move(m.r, m.c, b, cur_of(t),
                                       oppo_of(cur_of(t)), TRUE)
                IN  IF r.found
                    THEN [branch |-> "accept", move |-> m,
                          board |-> r.board, turn |-> t + 1]
                    ELSE [branch |-> "no_capture", move |-> m,
                          board |-> r.board, turn |-> t]
           ELSE [branch |-> "occupied", move |-> m, board |-> b, turn |-> t]
      ELSE [branch |-> "unparsed", move |-> m, board |-> b, turn |-> t]

\* Lines 38-43: the line names a legal move; it is applied.
AcceptMove ==
  /\ pc = "input"
  /\ \E line \in Lines :
       LET h == handle_line(line, board, turn)
       IN  /\ h.branch = "accept"
           /\ board' = h.board
           /\ turn' = h.turn
           /\ last_move' = [r |-> h.move.r, c |-> h.move.c, color |-> cur]
  /\ pc' = "analyze"
  /\ placed' = placed + 1
  /\ last' = "accept"
  /\ prev_board' = board
  /\ UNCHANGED <<pass_count, outcome, passes>>
  /\ UNCHANGED server

\* Lines 44-51: "Invalid move. Try again."
RejectMove ==
  /\ pc = "input"
  /\ \E line \in Lines :
       LET h == handle_line(line, board, turn)
       IN  /\ h.branch # "accept"
           /\ board' = h.board
           /\ turn' = h.turn
           /\ last' = h.branch
  /\ pc' = "analyze"
  /\ UNCHANGED <<pass_count, outcome, placed, passes, prev_board, last_move>>
  /\ UNCHANGED server

Next ==
  \/ PassTurn
  \/ GameOver
  \/ RequestMove
  \/ ReadError
  \/ AcceptMove
  \/ RejectMove

Spec == Init /\ [][Next]_vars

\* The program never blocks for ever on its own: some step is always taken.
FairSpec == Spec /\ WF_vars(Next)

\* ------------------------------------------------------------------------
\* is_valid_move as a function of any board: boards that are Empty except
\* on one line from the corner, probed with update = true
\* ------------------------------------------------------------------------

StripDirs == {<<0, 1>>, <<1, 0>>, <<1, 1>>}

Strip(d) == {<<k * d[1], k * d[2]>> : k \in 0 .. (StripLen - 1)}

StripBoards ==
  UNION {{[i \in Idx |-> [j \in Idx |->
             IF <<i, j>> \in Strip(d)
             THEN f[IF i > j THEN i ELSE j]
             ELSE "."]] : f \in [0 .. (StripLen - 1) -> Chars]} :
           d \in StripDirs}

ScanInit ==
  /\ board \in StripBoards
  /\ turn = 0
  /\ pass_count = 0
  /\ pc = "scan"
  /\ outcome = no_outcome
  /\ placed = 0
  /\ passes = 0
  /\ last = "start"
  /\ prev_board = init_board
  /\ last_move = no_move
  /\ no_server

\* One call of is_valid_move with update = true on an Empty cell of a strip,
\* for either colour; the board is left as the call leaves it.
Probe ==
  /\ pc = "scan"
  /\ \E d \in StripDirs, color \in Colours :
        \E p \in Strip(d) :
           /\ board[p[1]][p[2]] = "."
           /\ board' = is_valid_move(p[1], p[2], board, color, oppo_of(color),
                                     TRUE).board
  /\ UNCHANGED <<turn, pass_count, pc, outcome, placed, passes, last,
                 prev_board, last_move>>
  /\ UNCHANGED server

\* The game, together with the probes of is_valid_move on the strip boards.
ScanSpec == (Init \/ ScanInit) /\ [][Next \/ Probe]_vars

\* ------------------------------------------------------------------------
\* The end of a game: main run on a recorded opening
\* ------------------------------------------------------------------------

\* The cells typed in the first 54 turns of one game, all of them legal
\* moves; they leave six Empty cells, all among the cells the players may
\* type: (0,0), (1,1), (2,3), (2,4), (2,5), (4,5).  Black, who is to move
\* next, has no legal move on the board they leave.
Opening ==
  << <<3, 2>>, <<4, 2>>, <<5, 1>>, <<4, 1>>, <<3, 1>>, <<6, 0>>, <<6, 1>>,
     <<6, 2>>, <<7, 1>>, <<4, 0>>, <<5, 3>>, <<6, 3>>, <<7, 3>>, <<6, 4>>,
     <<5, 0>>, <<2, 2>>, <<7, 5>>, <<6, 5>>, <<7, 0>>, <<5, 2>>, <<7, 2>>,
     <<3, 0>>, <<6, 6>>, <<7, 4>>, <<1, 2>>, <<6, 7>>, <<5, 7>>, <<4, 7>>,
     <<5, 5>>, <<5, 6>>, <<4, 6>>, <<1, 3>>, <<1, 4>>, <<7, 7>>, <<7, 6>>,
     <<0, 4>>, <<3, 5>>, <<3, 6>>, <<3, 7>>, <<1, 5>>, <<1, 6>>, <<2, 7>>,
     <<5, 4>>, <<0, 5>>, <<1, 7>>, <<0, 7>>, <<2, 1>>, <<0, 3>>, <<1, 0>>,
     <<2, 6>>, <<2, 0>>, <<0, 6>>, <<0, 2>>, <<0, 1>> >>

\* The locals of main before the loop.
main_start ==
  [board |-> init_board, turn |-> 0, pass_count |-> 0, over |-> FALSE,
   placed |-> 0, passes |-> 0, last |-> "start",
   prev_board |-> init_board, last_move |-> no_move]

\* The iterations of the loop of main that ask for no line: a pass, or the
\* second pass in a row that ends the game.
RECURSIVE skip_passes(_)
skip_passes(st) ==
  LET color == cur_of(st.turn)
      a == analyze_board(st.board, color, oppo_of(color))
  IN  IF st.over \/ a.valid_cur
      THEN st
      ELSE IF st.pass_count + 1 = 2
      THEN [st EXCEPT !.pass_count = 2, !.over = TRUE, !.last = "over"]
      ELSE skip_passes([st EXCEPT !.pass_count = @ + 1, !.turn = @ + 1,
                                  !.passes = @ + 1, !.last = "pass"])

\* The loop of main up to and including the iteration that reads the line
\* of cell.
read_cell(st, cell) ==
  LET s == skip_passes(st)
      h == handle_line(LineOf(cell), s.board, s.turn)
  IN  IF s.over
      THEN s
      ELSE IF h.branch = "accept"
      THEN [s EXCEPT !.board = h.board, !.turn = h.turn, !.pass_count = 0,
                     !.placed = @ + 1, !.last = "accept",
                     !.prev_board = s.board,
                     !.last_move = [r |-> h.move.r, c |-> h.move.c,
                                    color |-> cur_of(s.turn)]]
      ELSE [s EXCEPT !.board = h.board, !.turn = h.turn, !.pass_count = 0,
                     !.last = h.branch]

\* The loop of main run on the lines of cells, one after the other, up to
\* the end of the iteration that reads the last of them.  The sequence is
\* run as its first half followed by its second half.
RECURSIVE run_main(_, _)
run_main(st, cells) ==
  IF Len(cells) = 0
  THEN st
  ELSE IF Len(cells) = 1
  THEN read_cell(st, cells[1])
  ELSE LET half == Len(cells) \div 2
           mid == run_main(st, SubSeq(cells, 1, half))
       IN  IF mid.over
           THEN mid
           ELSE run_main(mid, SubSeq(cells, half + 1, Len(cells)))

\* The state of main after the opening, about to analyse the board.
EndInit ==
  LET st == run_main(main_start, Opening)
  IN  /\ ~st.over
      /\ board = st.board
      /\ turn = st.turn
      /\ pass_count = st.pass_count
      /\ pc = "analyze"
      /\ outcome = no_outcome
      /\ placed = st.placed
      /\ passes = st.passes
      /\ last = st.last
      /\ prev_board = st.prev_board
      /\ last_move = st.last_move
      /\ no_server

\* The game from its first move, together with the game from the end of the
\* opening.
EndgameSpec == (Init \/ EndInit) /\ [][Next]_vars

\* ------------------------------------------------------------------------
\* The handlers of POST /songs/new and GET /songs/play/:id
\* ------------------------------------------------------------------------

\* The ids of the songs of a library.
song_ids(lib) == {lib[i].id : i \in 1 .. Len(lib)}

\* songs.iter().position(|s| s.id == id): the first index holding id, or 0.
position(lib, id) ==
  IF id \in song_ids(lib)
  THEN CHOOSE i \in 1 .. Len(lib) :
         /\ lib[i].id = id
         /\ \A k \in 1 .. (i - 1) : lib[k].id # id
  ELSE 0

\* A request comes in and its handler starts, as a task of its own.  The
\* requests are numbered in the order they come in.
Receive ==
  \E r \in Requests :
     /\ req[r].pc = "idle"
     /\ \A q \in 1 .. (r - 1) : req[q].pc # "idle"
     /\ \/ req' = [req EXCEPT ![r] = [no_request EXCEPT !.kind = "new",
                                                        !.pc = "await_lock"]]
        \/ \E id \in Requests :
              req' = [req EXCEPT ![r] = [no_request EXCEPT !.kind = "play",
                                                           !.pc = "await_lock",
                                                           !.id = id]]
     /\ UNCHANGED <<songs, disk, lock>>
     /\ UNCHANGED <<vars, loaded>>

\* state.songs.write() taken although another handler holds the lock.
songs_write_not_exclusive ==
  \E r \in Requests :
     /\ req[r].pc = "await_lock"
     /\ lock' = r
     /\ req' = [req EXCEPT ![r].pc = "locked"]
     /\ UNCHANGED <<songs, disk>>
     /\ UNCHANGED <<vars, loaded>>

\* let mut songs = state.songs.write(): the handler gets the write lock
\* once no other handler holds it.
songs_write ==
  \E r \in Requests :
     /\ req[r].pc = "await_lock"
     /\ lock = 0
     /\ lock' = r
     /\ req' = [req EXCEPT ![r].pc = "locked"]
     /\ UNCHANGED <<songs, disk>>
     /\ UNCHANGED <<vars, loaded>>

\* handle_songs_new, lines 73-76: the id after the last song's, or 1.
new_id ==
  \E r \in Requests :
     /\ req[r].kind = "new"
     /\ req[r].pc = "locked"
     /\ req' = [req EXCEPT ![r].new_id =
                             IF Len(songs) = 0
                             THEN 1
                             ELSE songs[Len(songs)].id + 1,
                           ![r].pc = "has_id"]
     /\ UNCHANGED <<songs, disk, lock>>
     /\ UNCHANGED <<vars, loaded>>

\* handle_songs_new, lines 78-86: songs.push(new_song.clone()).
push ==
  \E r \in Requests :
     /\ req[r].kind = "new"
     /\ req[r].pc = "has_id"
     /\ songs' = Append(songs, [id |-> req[r].new_id, play_count |-> 0])
     /\ req' = [req EXCEPT ![r].pc = "changed"]
     /\ UNCHANGED <<disk, lock>>
     /\ UNCHANGED <<vars, loaded>>

\* handle_songs_play, lines 149-152: the song of the id is found and its
\* play_count goes up by one.
play_found ==
  \E r \in Requests :
     /\ req[r].kind = "play"
     /\ req[r].pc = "locked"
     /\ position(songs, req[r].id) # 0
     /\ songs' = [songs EXCEPT ![position(songs, req[r].id)].play_count =
                                  @ + 1]
     /\ req' = [req EXCEPT ![r].pc = "changed"]
     /\ UNCHANGED <<disk, lock>>
     /\ UNCHANGED <<vars, loaded>>

\* handle_songs_play, lines 149 and 162-167: "Song not found".
play_not_found ==
  \E r \in Requests :
     /\ req[r].kind = "play"
     /\ req[r].pc = "locked"
     /\ position(songs, req[r].id) = 0
     /\ req' = [req EXCEPT ![r].pc = "to_reply"]
     /\ UNCHANGED <<songs, disk, lock>>
     /\ UNCHANGED <<vars, loaded>>

\* Lines 88-90 and 155-157: the library is written to songs.json; a failed
\* write is ignored.  fs::write truncates the file and then writes: a write
\* that fails leaves the file as it was, or holding no library.
save ==
  \E r \in Requests :
     /\ req[r].pc = "changed"
     /\ disk' \in {songs, disk, << >>}
     /\ req' = [req EXCEPT ![r].pc = "to_reply"]
     /\ UNCHANGED <<songs, lock>>
     /\ UNCHANGED <<vars, loaded>>

\* The handler returns: the guard is dropped and the reply goes out.
reply ==
  \E r \in Requests :
     /\ req[r].pc = "to_reply"
     /\ lock' = 0
     /\ req' = [req EXCEPT ![r].pc = "replied"]
     /\ UNCHANGED <<songs, disk>>
     /\ UNCHANGED <<vars, loaded>>

ServerNext ==
  \/ Receive
  \/ songs_write
  \/ new_id
  \/ push
  \/ play_found
  \/ play_not_found
  \/ save
  \/ reply

\* The start of the server; the game does not run.
ServerInit ==
  /\ server_start
  /\ board = init_board
  /\ turn = 0
  /\ pass_count = 0
  /\ pc = "analyze"
  /\ outcome = no_outcome
  /\ placed = 0
  /\ passes = 0
  /\ last = "start"
  /\ prev_board = init_board
  /\ last_move = no_move

\* The server, started on each of the files.
ServerSpec == ServerInit /\ [][ServerNext]_<<vars, server>>

TypeOK ==
  /\ board \in [Idx -> [Idx -> Chars]]
  /\ turn \in Nat
  /\ pass_count \in 0 .. 2
  /\ pc \in {"analyze", "input", "done", "scan"}
  /\ last \in {"start", "pass", "over", "request", "read_error", "accept",
               "no_capture", "occupied", "unparsed"}

\* ------------------------------------------------------------------------
\* The rules as the specification states them, written without the scan
\* ------------------------------------------------------------------------

Compass == {d \in {-1, 0, 1} \X {-1, 0, 1} : d # <<0, 0>>}

Squares == Idx \X Idx

At(b, p) == b[p[1]][p[2]]

Along(p, d, k) == <<p[1] + k * d[1], p[2] + k * d[2]>>

OnBoard(p) == p[1] \in Idx /\ p[2] \in Idx

\* The neighbour of p in direction d holds the opponent's colour.
Adjacent(b, p, color, d) ==
  OnBoard(Along(p, d, 1)) /\ At(b, Along(p, d, 1)) = oppo_of(color)

\* The lengths n >= 1 such that the n cells after p in direction d hold the
\* opponent's colour and the next cell holds color (at most one such n).
Bracketed(b, p, color, d) ==
  IF ~Adjacent(b, p, color, d)
  THEN {}
  ELSE {n \in 1 .. (N - 2) :
          /\ OnBoard(Along(p, d, n + 1))
          /\ At(b, Along(p, d, n + 1)) = color
          /\ \A k \in 1 .. n : At(b, Along(p, d, k)) = oppo_of(color)}

FlipSet(b, p, color) ==
  UNION {{Along(p, d, k) : k \in 1 .. n} :
           <<d, n>> \in {x \in Compass \X (1 .. (N - 2)) :
                           x[2] \in Bracketed(b, p, color, x[1])}}

Legal(b, p, color) == \E d \in Compass : Bracketed(b, p, color, d) # {}

Placement(b, p, color) ==
  LET fs == FlipSet(b, p, color)
  IN  [i \in Idx |-> [j \in Idx |->
         IF <<i, j>> = p \/ <<i, j>> \in fs THEN color ELSE b[i][j]]]

Count(b, ch) == Cardinality({p \in Squares : At(b, p) = ch})

Occupied(b) == Count(b, "B") + Count(b, "W")

\* How the scan from p in direction d ends once it has met at least one
\* opponent cell: on the mover's colour, on an Empty cell, or off the board.
RunEnd(b, p, color, d) ==
  LET run == {n \in 1 .. N :
                \A k \in 1 .. n :
                   OnBoard(Along(p, d, k)) /\ At(b, Along(p, d, k)) = oppo_of(color)}
  IN  IF run = {}
      THEN "no_run"
      ELSE LET n == CHOOSE x \in run : \A y \in run : y <= x
               q == Along(p, d, n + 1)
           IN  IF ~OnBoard(q) THEN "edge"
               ELSE IF At(b, q) = "." THEN "empty"
               ELSE "own"

LastTarget == <<last_move.r, last_move.c>>

\* Cells the last accepted move turned from the opponent's colour.
Flipped ==
  {p \in Squares :
     At(prev_board, p) = oppo_of(last_move.color) /\ At(board, p) = last_move.color}

\* ------------------------------------------------------------------------
\* Properties
\* ------------------------------------------------------------------------

\* C1: a cell that holds Black or White never becomes Empty again; a cell
\* changes only from Empty to the mover's colour as the target of an accepted
\* move, or from a colour to the opposite colour during an accepted move.
C1_NeverEmptied ==
  [][\A p \in Squares :
       /\ At(board, p) # "." => At(board', p) # "."
       /\ (At(board, p) = "." /\ At(board', p) # ".") =>
            /\ last' = "accept"
            /\ p = <<last_move'.r, last_move'.c>>
            /\ At(board', p) = last_move'.color
       /\ (At(board, p) # "." /\ At(board', p) # At(board, p)) =>
            /\ last' = "accept"
            /\ At(board', p) = oppo_of(At(board, p))]_vars

\* An accepted move after a pass has just placed one stone and flipped others.
C1_Witness ==
  /\ last = "accept"
  /\ passes >= 1
  /\ At(prev_board, LastTarget) = "."
  /\ At(board, LastTarget) = last_move.color
  /\ Flipped # {}

\* C2: handling a rejected line (unparsed or out of range, occupied target,
\* Empty target without capture) changes neither the board, nor the turn
\* counter, nor the pass counter, and the same player is asked again.
C2_RejectionChangesNothing ==
  [][(pc = "input" /\ last' \in {"unparsed", "occupied", "no_capture"}) =>
       /\ board' = board
       /\ turn' = turn
       /\ pass_count' = pass_count
       /\ pc' = "analyze"
       /\ analyze_board(board', cur_of(turn'), oppo_of(cur_of(turn'))).valid_cur]_vars

\* A line naming an Empty cell next to an opponent stone, without capture,
\* has just been rejected, after a pass and some accepted moves.
C2_Witness ==
  /\ last = "no_capture"
  /\ placed >= 2
  /\ passes >= 1
  /\ \E k \in 1 .. NumCells, d \in Compass :
        /\ At(board, InputCells[k]) = "."
        /\ ~Legal(board, InputCells[k], cur)
        /\ RunEnd(board, InputCells[k], cur, d) \in {"edge", "empty"}

\* C3: on every board of a game and every strip board, for every Empty cell
\* and both colours,
\* is_valid_move answers true exactly when some direction holds one or more
\* opponent cells followed by a cell of the mover's colour.
C3_BracketingRule ==
  \A p \in Squares, color \in Colours :
     At(board, p) = "." =>
       (is_valid_move(p[1], p[2], board, color, oppo_of(color), FALSE).found
          <=> Legal(board, p, color))

\* A board with a cell that brackets a run of four or more, a cell whose
\* run of two or more opponent cells runs off the board, and a cell whose
\* run ends on an Empty cell.
C3_Witness ==
  /\ \E p \in Squares, d \in Compass :
        /\ At(board, p) = "."
        /\ \E n \in Bracketed(board, p, "B", d) : n >= 4
  /\ \E p \in Squares, d \in Compass :
        /\ At(board, p) = "."
        /\ RunEnd(board, p, "W", d) = "edge"
        /\ Adjacent(board, Along(p, d, 1), "W", d)
        /\ ~Legal(board, p, "W")
  /\ \E p \in Squares, d \in Compass :
        At(board, p) = "." /\ RunEnd(board, p, "B", d) = "empty"

\* A board of a game with a legal cell, with scans that end on an Empty cell
\* and scans that run off the board after opponent cells, and with an Empty
\* cell that touches only the mover's own colour.
C3_WitnessInGame ==
  /\ pc = "input"
  /\ \E p \in Squares : At(board, p) = "." /\ Legal(board, p, cur)
  /\ \E p \in Squares, d \in Compass :
        At(board, p) = "." /\ RunEnd(board, p, cur, d) = "edge"
  /\ \E p \in Squares, d \in Compass :
        At(board, p) = "." /\ RunEnd(board, p, cur, d) = "empty"
  /\ \E p \in Squares, d \in Compass :
        /\ At(board, p) = "."
        /\ OnBoard(Along(p, d, 1))
        /\ At(board, Along(p, d, 1)) = cur
        /\ ~Legal(board, p, cur)

\* C4: an accepted move sets the target and exactly the flip set to the
\* mover's colour and leaves every other cell as it was.
C4_AcceptedMoveEffect ==
  last = "accept" =>
    /\ At(prev_board, LastTarget) = "."
    /\ board = Placement(prev_board, LastTarget, last_move.color)

\* An accepted move that flipped in two directions or more while a third
\* direction walked over opponent cells and ended on Empty or the edge.
C4_Witness ==
  /\ last = "accept"
  /\ Cardinality({d \in Compass :
                    Bracketed(prev_board, LastTarget, last_move.color, d) # {}}) >= 2
  /\ \E d \in Compass :
        RunEnd(prev_board, LastTarget, last_move.color, d) \in {"edge", "empty"}
  /\ Cardinality(Flipped) >= 3

\* C5 as stated: an accepted move raises black_count + white_count by
\* 1 + the number of flipped cells, which is at least 1.
C5_AsStated ==
  last = "accept" =>
    /\ Occupied(board) = Occupied(prev_board) + 1 + Cardinality(Flipped)
    /\ Cardinality(Flipped) >= 1

\* C5 amended: an accepted move raises black_count + white_count by exactly
\* 1, raises the mover's count by 1 + the number of flipped cells, and flips
\* at least one cell.
C5_Progress ==
  last = "accept" =>
    /\ Occupied(board) = Occupied(prev_board) + 1
    /\ Count(board, last_move.color) =
         Count(prev_board, last_move.color) + 1 + Cardinality(Flipped)
    /\ Cardinality(Flipped) >= 1
    /\ analyze_board(board, cur, oppo).black + analyze_board(board, cur, oppo).white
         = Occupied(board)

\* An accepted move that flipped two cells or more has just added one stone.
C5_Witness ==
  /\ last = "accept"
  /\ Cardinality(Flipped) >= 2
  /\ Occupied(board) = Occupied(prev_board) + 1

\* C6 as stated: the game loop always reaches GameOver.
C6_AsStated == <>(pc = "done")

\* A measure of what is left of the game: three per Empty cell, plus the
\* position inside the current visit.
Rank ==
  3 * Count(board, ".")
    + (IF pc = "analyze" THEN (IF pass_count = 1 THEN 1 ELSE 2) ELSE 0)

\* C6 amended: at most 60 placements are ever accepted, one per cell filled,
\* and every step other than a rejected line or a failed read strictly
\* lowers Rank, which is never negative; so the loop reaches GameOver
\* unless lines are rejected or reads fail for ever.
C6_Termination ==
  /\ [](placed = Occupied(board) - 4 /\ placed <= N * N - 4 /\ Rank >= 0)
  /\ [][last' \notin {"unparsed", "occupied", "no_capture", "read_error"}
          => Rank' < Rank]_vars

\* GameOver has been reached after nine placements or more.
C6_Witness ==
  /\ pc = "done"
  /\ placed >= 9
  /\ placed = Occupied(board) - 4

\* C7: when the player to move has no legal move and the pass counter is 0,
\* the step taken is a pass: the board is unchanged, the pass counter
\* becomes 1, the opponent is to move, and no input is requested.
C7_Pass ==
  [][(/\ pc = "analyze"
      /\ pass_count = 0
      /\ \A p \in Squares : At(board, p) = "." => ~Legal(board, p, cur)) =>
       /\ board' = board
       /\ pass_count' = 1
       /\ turn' = turn + 1
       /\ cur_of(turn') = oppo
       /\ pc' = "analyze"
       /\ last' = "pass"]_vars

\* A pass has just happened although the opponent can move.
C7_Witness ==
  /\ last = "pass"
  /\ pass_count = 1
  /\ pc = "analyze"
  /\ \E p \in Squares : At(board, p) = "." /\ Legal(board, p, cur)
  /\ \A p \in Squares : At(board, p) = "." => ~Legal(board, p, oppo)

\* C8: GameOver is entered exactly when the pass counter reaches 2, by the
\* second of two consecutive passes on one board; nothing happens after it.
C8_DoublePass ==
  /\ [](/\ pc = "done" <=> pass_count = 2
        /\ pc = "done" <=> last = "over"
        /\ (pass_count = 1 /\ pc = "analyze") => last = "pass")
  /\ [][/\ (pc' = "done" /\ pc # "done") =>
             /\ pass_count = 1
             /\ last = "pass"
             /\ board' = board
             /\ turn' = turn
             /\ \A p \in Squares, color \in Colours :
                   At(board, p) = "." => ~Legal(board, p, color)
        /\ pc = "done" => UNCHANGED vars]_vars

\* GameOver has been entered by a double pass, with Empty cells left and
\* after an earlier pass that did not end the game.
C8_Witness ==
  /\ pc = "done"
  /\ pass_count = 2
  /\ passes >= 1
  /\ \E p \in Squares : At(board, p) = "."

\* C9: the outcome reported at GameOver is the comparison of the stone
\* counts of the final board: the larger count wins by the positive
\* difference, equal counts are a draw.
C9_Outcome ==
  /\ pc = "done" =>
       LET b == Count(board, "B")
           w == Count(board, "W")
       IN  /\ b > w => outcome = [winner |-> "Black", points |-> b - w]
           /\ w > b => outcome = [winner |-> "White", points |-> w - b]
           /\ b = w => outcome = [winner |-> "Draw", points |-> 0]
           /\ outcome.winner # "Draw" => outcome.points > 0
  /\ pc # "done" => outcome = no_outcome
  /\ pc = "done" =>
       \A x \in 0 .. (N * N), y \in 0 .. (N * N) :
          LET o == print_winner(x, y)
          IN  /\ o.winner = "Black" <=> x > y
              /\ o.winner = "White" <=> y > x
              /\ o.winner = "Draw" <=> x = y
              /\ o.points = IF x > y THEN x - y ELSE y - x

\* GameOver has reported a win for Black by the difference of the counts.
C9_Witness ==
  /\ pc = "done"
  /\ outcome.winner = "Black"
  /\ outcome.points = Count(board, "B") - Count(board, "W")
  /\ outcome.points > 0

\* C10: Black moves first, and the player to move changes exactly at an
\* accepted move or a pass that does not end the game, so that the player
\* is fixed by the parity of the number of resolved turns.
C10_Alternation ==
  /\ [](/\ turn = placed + passes
        /\ cur = IF (placed + passes) % 2 = 0 THEN "B" ELSE "W"
        /\ (placed + passes = 0) => cur = "B")
  /\ [][/\ (cur_of(turn') # cur) <=> (last' \in {"accept", "pass"})
        /\ last' \in {"accept", "pass"} => cur_of(turn') = oppo]_vars

\* White has moved twice in a row, with a Black pass between.
C10_Witness ==
  /\ last = "accept"
  /\ last_move.color = "W"
  /\ passes = 1
  /\ placed % 2 = 1
  /\ cur = "B"

\* ------------------------------------------------------------------------
\* C11: the initial state
\* ------------------------------------------------------------------------

\* C11: the game starts with Black to move, the pass counter at 0, White on
\* (3,3) and (4,4), Black on (3,4) and (4,3), the other 60 cells empty, and
\* the first analysis counts 2 black and 2 white stones.
C11_InitialState ==
  (placed = 0 /\ passes = 0) =>
     /\ turn = 0
     /\ cur = "B"
     /\ pass_count = 0
     /\ \A p \in Squares :
          At(board, p) = IF p \in {<<3, 3>>, <<4, 4>>} THEN "W"
                         ELSE IF p \in {<<3, 4>>, <<4, 3>>} THEN "B"
                         ELSE "."
     /\ Cardinality({p \in Squares : At(board, p) = "."}) = N * N - 4
     /\ analyze_board(board, cur, oppo).black = 2
     /\ analyze_board(board, cur, oppo).white = 2
     /\ analyze_board(board, cur, oppo).valid_cur

\* The first analysis has run on the initial board and Black is asked for
\* the first move.
C11_Witness ==
  /\ last = "request"
  /\ placed = 0
  /\ passes = 0
  /\ pc = "input"
  /\ cur = "B"
  /\ board = init_board

\* ------------------------------------------------------------------------
\* C12: a move on an occupied cell
\* ------------------------------------------------------------------------

\* The lines the players may type whose parsed target is occupied on b.
OccupiedLines(b) ==
  {line \in Lines :
     LET m == parse_move(trim(line))
     IN  m.some /\ b[m.r][m.c] # "."}

\* C12: a line whose target cell already holds a Black or White stone takes
\* the "occupied" branch and leaves the board, the turn counter and the pass
\* counter as they were, also when that cell is next to a run of opponent
\* stones that ends on a stone of the mover's colour.
C12_OccupiedRejected ==
  /\ [](pc = "input" =>
          \A line \in OccupiedLines(board) :
             LET h == handle_line(line, board, turn)
             IN  /\ h.branch = "occupied"
                 /\ h.board = board
                 /\ h.turn = turn)
  /\ [][(pc = "input" /\ last' = "occupied") =>
          /\ OccupiedLines(board) # {}
          /\ board' = board
          /\ turn' = turn
          /\ pass_count' = pass_count
          /\ placed' = placed]_vars

\* A line has just been rejected as occupied on a board where a typed cell
\* is occupied and brackets a run of the opponent for the player to move.
C12_Witness ==
  /\ last = "occupied"
  /\ pc = "analyze"
  /\ placed >= 1
  /\ \E line \in OccupiedLines(board) :
        LET m == parse_move(trim(line))
        IN  Legal(board, <<m.r, m.c>>, cur)

\* ------------------------------------------------------------------------
\* C13: a move that captures nothing
\* ------------------------------------------------------------------------

\* The opponent cells that the scan from p walks over: in each direction the
\* unbroken run of opponent stones that starts next to p.
Walked(b, p, color) ==
  {q \in Squares :
     \E d \in Compass, n \in 1 .. (N - 1) :
        /\ q = Along(p, d, n)
        /\ \A k \in 1 .. n :
              OnBoard(Along(p, d, k)) /\ At(b, Along(p, d, k)) = oppo_of(color)}

\* C13: for an Empty cell from which no direction brackets a run, the
\* applying scan (update = true) answers false and hands back the board with
\* no cell written, neither the target nor an opponent cell it walked over;
\* a line naming such a cell takes the "no_capture" branch and leaves the
\* board and the turn counter as they were.
C13_NoCaptureWritesNothing ==
  /\ \A p \in Squares, color \in Colours :
        (At(board, p) = "." /\ ~Legal(board, p, color)) =>
           LET r == is_valid_move(p[1], p[2], board, color, oppo_of(color),
                                  TRUE)
           IN  /\ ~r.found
               /\ r.board = board
  /\ pc = "input" =>
        \A k \in 1 .. NumCells :
           (At(board, InputCells[k]) = "." /\ ~Legal(board, InputCells[k], cur)) =>
              LET h == handle_line(LineOf(InputCells[k]), board, turn)
              IN  /\ h.branch = "no_capture"
                  /\ h.board = board
                  /\ h.turn = turn

\* A line naming an Empty cell has just been rejected for capturing nothing
\* although the scan from a typed Empty cell walks over opponent stones.
C13_Witness ==
  /\ last = "no_capture"
  /\ pc = "analyze"
  /\ \E k \in 1 .. NumCells :
        /\ At(board, InputCells[k]) = "."
        /\ ~Legal(board, InputCells[k], cur)
        /\ Cardinality(Walked(board, InputCells[k], cur)) >= 2

\* ------------------------------------------------------------------------
\* C14: the effect of a move on the stone counts
\* ------------------------------------------------------------------------

\* C14: an accepted move that flips k opponent stones raises the mover's
\* count by 1 + k and lowers the opponent's count by k, k being the number
\* of bracketed cells on the board before the move; every legal first move
\* of Black on the initial board brackets exactly one White stone and leaves
\* 4 black stones and 1 white stone.
C14_CountEffect ==
  /\ last = "accept" =>
        LET mover == last_move.color
            k == Cardinality(FlipSet(prev_board, LastTarget, mover))
            before == analyze_board(prev_board, mover, oppo_of(mover))
            after == analyze_board(board, mover, oppo_of(mover))
            own(a) == IF mover = "B" THEN a.black ELSE a.white
            other(a) == IF mover = "B" THEN a.white ELSE a.black
        IN  /\ k >= 1
            /\ own(after) = own(before) + 1 + k
            /\ other(after) = other(before) - k
  /\ (placed = 0 /\ passes = 0) =>
        /\ {p \in Squares : At(board, p) = "." /\ Legal(board, p, "B")} =
              {<<2, 3>>, <<3, 2>>, <<4, 5>>, <<5, 4>>}
        /\ \A p \in Squares :
              (At(board, p) = "." /\ Legal(board, p, "B")) =>
                 LET r == is_valid_move(p[1], p[2], board, "B", "W", TRUE)
                     a == analyze_board(r.board, "W", "B")
                 IN  /\ r.found
                     /\ Cardinality(FlipSet(board, p, "B")) = 1
                     /\ a.black = 4
                     /\ a.white = 1
  /\ (placed = 1 /\ passes = 0) =>
        /\ analyze_board(board, cur, oppo).black = 4
        /\ analyze_board(board, cur, oppo).white = 1

\* An accepted move has just flipped three or more stones in two or more
\* directions, and before it Black's first move left 4 black and 1 white.
C14_Witness ==
  /\ last = "accept"
  /\ placed >= 2
  /\ Cardinality(FlipSet(prev_board, LastTarget, last_move.color)) >= 3
  /\ Cardinality({d \in Compass :
                    Bracketed(prev_board, LastTarget, last_move.color, d) # {}}) >= 2
  /\ Count(board, last_move.color) =
       Count(prev_board, last_move.color) + 1
         + Cardinality(FlipSet(prev_board, LastTarget, last_move.color))

\* ------------------------------------------------------------------------
\* C15: the stone counts add up to the board
\* ------------------------------------------------------------------------

\* C15: every cell holds exactly one of '.', 'B' and 'W', so that the black
\* count and the white count of analyze_board and the number of Empty cells
\* add up to 64.
C15_CountInvariant ==
  /\ \A p \in Squares : At(board, p) \in Chars
  /\ LET a == analyze_board(board, cur, oppo)
         empty == Cardinality({p \in Squares : At(board, p) = "."})
     IN  /\ a.black + a.white + empty = N * N
         /\ a.black + a.white = 4 + placed
         /\ empty = N * N - 4 - placed

\* Stones have been placed and flipped, a turn has been passed, and the
\* three counts are 64 together with each of them above zero.
C15_Witness ==
  /\ placed >= 8
  /\ passes >= 1
  /\ \E p \in Flipped : TRUE
  /\ Count(board, "B") > 0
  /\ Count(board, "W") > 0
  /\ Count(board, ".") > 0
  /\ Count(board, "B") + Count(board, "W") + Count(board, ".") = N * N

\* ------------------------------------------------------------------------
\* C16: the pass counter
\* ------------------------------------------------------------------------

\* C16: the pass counter is always 0, 1 or 2; every iteration in which the
\* player to move has a legal move sets it to 0, so that it is 1 at the
\* start of an iteration only directly after a pass, it is 0 while a line
\* is awaited and after a placement, it is 2 exactly when the game is over,
\* and a pass that follows a placement never ends the game: a pass, a
\* placement and another pass leave the game running.
C16_PassCounter ==
  /\ [](/\ pass_count \in {0, 1, 2}
        /\ pc = "input" => pass_count = 0
        /\ last = "accept" => pass_count = 0
        /\ (pc = "analyze" /\ pass_count = 1) => last = "pass"
        /\ pass_count = 2 <=> pc = "done")
  /\ [][(pc = "analyze" /\ analyze_board(board, cur, oppo).valid_cur) =>
          (pass_count' = 0 /\ pc' = "input")]_vars
  /\ [][(last = "accept" /\ last' \in {"pass", "over"}) =>
          (last' = "pass" /\ pass_count' = 1 /\ pc' = "analyze")]_vars

\* After the opening Black has passed, White has placed a stone and Black
\* has passed again; the game is not over and White is to move.
C16_Witness ==
  /\ placed = Len(Opening) + 1
  /\ passes = 2
  /\ last = "pass"
  /\ pass_count = 1
  /\ pc = "analyze"
  /\ last_move.color = "W"
  /\ cur = "W"

\* ------------------------------------------------------------------------
\* C17: the board at the end of the game
\* ------------------------------------------------------------------------

\* C17: when the game is over neither Black nor White has a legal move on
\* the final board: no Empty cell brackets a run for either colour, and the
\* two passes that ended the game were taken on that same board; a board
\* without an Empty cell is one such case, and the game on it ends through
\* two passes.
C17_GameOverNoMoves ==
  /\ [](pc = "done" =>
          /\ \A p \in Squares, color \in Colours :
                At(board, p) = "." => ~Legal(board, p, color)
          /\ ~analyze_board(board, "B", "W").valid_cur
          /\ ~analyze_board(board, "B", "W").valid_oppo
          /\ pass_count = 2
          /\ passes >= 1)
  /\ [](Count(board, ".") = 0 =>
          /\ pc # "input"
          /\ ~analyze_board(board, "B", "W").valid_cur
          /\ ~analyze_board(board, "B", "W").valid_oppo)
  /\ [][pc' = "done" =>
          /\ last = "pass"
          /\ pass_count = 1
          /\ board' = board
          /\ ~analyze_board(board, cur, oppo).valid_cur
          /\ ~analyze_board(board, cur, oppo).valid_oppo]_vars
  /\ [][last' = "pass" => board' = board]_vars
  /\ [][(Count(board, ".") = 0 /\ pc = "analyze") =>
          (last' \in {"pass", "over"} /\ board' = board)]_vars

\* The game has ended by two passes on a board without an Empty cell.
C17_Witness ==
  /\ pc = "done"
  /\ last = "over"
  /\ pass_count = 2
  /\ Count(board, ".") = 0
  /\ Count(board, "B") > 0
  /\ Count(board, "W") > 0
  /\ passes >= 1

\* The game has ended with Empty cells left and stones of both colours on
\* the board.
C17_WitnessOpenBoard ==
  /\ pc = "done"
  /\ Count(board, ".") > 0
  /\ Count(board, "B") > 0
  /\ Count(board, "W") > 0

\* ------------------------------------------------------------------------
\* C18: the existence check and the apply step agree
\* ------------------------------------------------------------------------

\* Some cell of the board, typed by the player of turn t, would be accepted.
Acceptable(b, t) ==
  \E cell \in Squares : handle_line(LineOf(cell), b, t).branch = "accept"

\* C18: the loop asks the player to move for a line exactly when some cell
\* typed by that player would be accepted, and passes (or ends the game)
\* exactly when none would; for every Empty cell and both colours the
\* read-only scan (update = false) gives the verdict of the applying scan
\* (update = true) and hands the board back as it was; the analysis step
\* never changes the board of the game.
C18_CheckAgreesWithApply ==
  /\ [](pc = "analyze" =>
          \A p \in Squares, color \in Colours :
             At(board, p) = "." =>
                LET ro == is_valid_move(p[1], p[2], board, color,
                                        oppo_of(color), FALSE)
                    ap == is_valid_move(p[1], p[2], board, color,
                                        oppo_of(color), TRUE)
                IN  /\ ro.found = ap.found
                    /\ ro.board = board)
  /\ [](pc = "analyze" =>
          (analyze_board(board, cur, oppo).valid_cur
             <=> Acceptable(board, turn)))
  /\ [](pc = "input" => Acceptable(board, turn))
  /\ [][pc = "analyze" =>
          /\ board' = board
          /\ (pc' = "input") <=> Acceptable(board, turn)
          /\ (last' \in {"pass", "over"}) <=> ~Acceptable(board, turn)]_vars

\* The loop has passed a turn for want of an acceptable cell and now asks
\* for a line on a board that has Empty cells the player may take and Empty
\* cells next to an opponent stone that the player may not take.
C18_Witness ==
  /\ last = "request"
  /\ pc = "input"
  /\ passes >= 1
  /\ \E p \in Squares :
        /\ At(board, p) = "."
        /\ is_valid_move(p[1], p[2], board, cur, oppo, FALSE).found
        /\ handle_line(LineOf(p), board, turn).branch = "accept"
  /\ \E p \in Squares :
        /\ At(board, p) = "."
        /\ Walked(board, p, cur) # {}
        /\ ~is_valid_move(p[1], p[2], board, cur, oppo, FALSE).found
        /\ handle_line(LineOf(p), board, turn).branch = "no_capture"

\* ------------------------------------------------------------------------
\* C19: the scan and parse_move stay on the board
\* ------------------------------------------------------------------------

\* The largest code point of the characters parse_move is tried on.
MaxChar == 360

\* The cells in which the applying scan from p leaves a value other than
\* the one it found.
Written(b, p, color) ==
  LET r == is_valid_move(p[1], p[2], b, color, oppo_of(color), TRUE)
  IN  {q \in Squares : At(r.board, q) # At(b, q)}

\* C19: for every target cell, either colour and every direction, each
\* coordinate at which the scan indexes the board lies in [0,8)x[0,8), the
\* scan walks over at most 7 cells in the direction, and the cells it writes
\* are the target or cells it walked over; every move that parse_move
\* returns has both coordinates in [0,8).  The scan is examined on every
\* board of the game, in the state where the board first appears.
C19_BoundsSafety ==
  /\ last \in {"start", "accept"} =>
       \A p \in Squares, color \in Colours :
          /\ \A k \in 1 .. Len(dirs) :
                LET path == dir_path(p[1], p[2], board, color,
                                     oppo_of(color), dirs[k])
                    walk == check_path(p[1] + dirs[k][1], p[2] + dirs[k][2],
                                       board, color, oppo_of(color), dirs[k])
                IN  /\ \A n \in 1 .. Len(path) :
                          path[n][1] \in Idx /\ path[n][2] \in Idx
                    /\ \A n \in 1 .. Len(walk) :
                          /\ walk[n] = Along(p, dirs[k], n)
                          /\ is_inside_board(walk[n][1], walk[n][2])
                          /\ OnBoard(walk[n])
                    /\ Len(walk) <= N - 1
          /\ Written(board, p, color) \subseteq
               {p} \cup
               UNION {LET walk == check_path(p[1] + dirs[k][1],
                                             p[2] + dirs[k][2], board, color,
                                             oppo_of(color), dirs[k])
                      IN  {walk[n] : n \in 1 .. Len(walk)} :
                      k \in 1 .. Len(dirs)}
  /\ last = "start" =>
       \A x \in 0 .. MaxChar, y \in 0 .. MaxChar :
          LET m == parse_move(<<x, y>>)
          IN  /\ m.some => (m.r \in Idx /\ m.c \in Idx)
              /\ m.some <=> (x % 256 \in 97 .. 104 /\ y % 256 \in 97 .. 104)

\* On the board left by a move made after the opening, the scan from an
\* Empty cell walks over 7 cells in one direction, up to the edge of the
\* board.
C19_Witness ==
  /\ last = "accept"
  /\ placed > Len(Opening)
  /\ \E p \in Squares, color \in Colours, k \in 1 .. Len(dirs) :
        /\ At(board, p) = "."
        /\ Len(check_path(p[1] + dirs[k][1], p[2] + dirs[k][2], board,
                          color, oppo_of(color), dirs[k])) = N - 1

\* ------------------------------------------------------------------------
\* C20: the ids of the song library
\* ------------------------------------------------------------------------

\* The requests whose handler is between taking the write lock and
\* returning.
InHandler == {r \in Requests : req[r].pc \in {"locked", "has_id", "changed",
                                              "to_reply"}}

\* C20: when the server was started on an empty library, under every
\* interleaving of requests for /songs/new and /songs/play the songs of the
\* library have ids 1, 2, 3, ... in the order they were pushed, so that
\* every pushed song has an id that no song of the library had, and
\* /songs/play changes no id; on whatever library the server was started,
\* the handler that computes the id and pushes the song holds the write
\* lock from before the id is computed until after the song is pushed, and
\* no other handler is inside.
C20_UniqueIds ==
  /\ [](loaded = << >> =>
          /\ \A i \in 1 .. Len(songs) : songs[i].id = i
          /\ \A i \in 1 .. Len(songs), j \in 1 .. Len(songs) :
                i # j => songs[i].id # songs[j].id
          /\ \A r \in Requests :
                req[r].pc = "has_id" =>
                   req[r].new_id \notin song_ids(songs))
  /\ [](/\ Cardinality(InHandler) <= 1
        /\ \A r \in InHandler : lock = r
        /\ InHandler = {} => lock = 0)
  /\ [][Len(songs') # Len(songs) =>
          /\ Len(songs') = Len(songs) + 1
          /\ SubSeq(songs', 1, Len(songs)) = songs
          /\ loaded = << >> =>
                /\ songs'[Len(songs')].id \notin song_ids(songs)
                /\ songs'[Len(songs')].id = Len(songs) + 1
          /\ lock # 0
          /\ lock' = lock
          /\ req[lock].kind = "new"
          /\ req[lock].pc = "has_id"]_<<vars, server>>
  /\ [][Len(songs') = Len(songs) =>
          \A i \in 1 .. Len(songs) : songs'[i].id = songs[i].id]_<<vars, server>>

\* On a server started on an empty library a second song has been pushed,
\* with id 2, by a handler that still holds the write lock, while the
\* handler of another request waits for the lock.
C20_Witness ==
  /\ loaded = << >>
  /\ Len(songs) = 2
  /\ songs[1].id = 1
  /\ songs[2].id = 2
  /\ lock # 0
  /\ req[lock].kind = "new"
  /\ req[lock].pc = "changed"
  /\ \E r \in Requests : req[r].pc = "await_lock"

====
